---- MODULE Spec2Model ----
(***************************************************************************)
(* Model of crates/change_json/src/crate_graph_json.rs: the codec between  *)
(* a CrateGraph and its serialisable form CrateGraphJson.                  *)
(*                                                                         *)
(* The types CrateGraph, CrateName, Edition, CfgOptions and Env come from  *)
(* the crates base_db and cfg, whose code is not part of the source tree;  *)
(* their operations are modelled from the interfaces the specification     *)
(* describes (section 6) and are kept apart in the first part below.       *)
(***************************************************************************)
EXTENDS Integers, Sequences, FiniteSets, TLC

VARIABLES graph, order, doc, out, pc, dup_policy

vars == <<graph, order, doc, out, pc, dup_policy>>

(***************************************************************************)
(* Bounds of the model.                                                    *)
(***************************************************************************)
\* units of a graph that is built and encoded
MaxCrates == 3
\* dependency edges of a graph that is built and encoded
MaxEdges == 2
\* units of a document of arbitrary provenance
DocUnits == 2
\* edges of a document of arbitrary provenance
MaxDeps == 2
\* entries of the env list of a document
MaxEnv == 3

(***************************************************************************)
(* Generic helpers.                                                        *)
(***************************************************************************)
Range(s) == {s[i] : i \in 1..Len(s)}

\* Some enumeration of a finite set: the order in which a hash set or a
\* hash map hands out its elements.
RECURSIVE SetToSeq(_)
SetToSeq(S) ==
    IF S = {} THEN <<>>
    ELSE LET x == CHOOSE y \in S : TRUE IN <<x>> \o SetToSeq(S \ {x})

Perms(n) == {s \in [1..n -> 0..(n - 1)] : \A i, j \in 1..n : i # j => s[i] # s[j]}

SeqsUpTo(S, n) == UNION {[1..k -> S] : k \in 0..n}

EmptyMap == [x \in {} |-> ""]

(***************************************************************************)
(* base_db and cfg: the collaborators of the codec.                        *)
(***************************************************************************)
\* A text is a sequence of characters; a name token is a non-empty text of
\* identifier characters.
IdentChars == {"a", "b", "c", "d", "_"}

IsNameToken(text) == Len(text) > 0 /\ \A i \in 1..Len(text) : text[i] \in IdentChars

\* CrateName::new: Ok(name) for a name token, Err otherwise.
CrateName_new(text) == [ok |-> IsNameToken(text), name |-> text]

\* CrateName's Display: the text it wraps.
CrateName_to_string(name) == name

Editions == {"Edition2015", "Edition2018", "Edition2021"}

Edition_CURRENT == "Edition2018"

\* Edition's Display: the canonical text form.
Edition_to_string(edition) ==
    CASE edition = "Edition2015" -> "2015"
      [] edition = "Edition2018" -> "2018"
      [] edition = "Edition2021" -> "2021"

\* Edition's FromStr: the closed enumeration, Err on any other text.
Edition_parse(text) ==
    CASE text = "2015" -> [ok |-> TRUE, edition |-> "Edition2015"]
      [] text = "2018" -> [ok |-> TRUE, edition |-> "Edition2018"]
      [] text = "2021" -> [ok |-> TRUE, edition |-> "Edition2021"]
      [] OTHER -> [ok |-> FALSE, edition |-> "none"]

\* Option<T>
None == [some |-> FALSE]
Some(v) == [some |-> TRUE, value |-> v]

\* CrateDisplayName: the label of a unit.
CrateDisplayName_from_canonical_name(text) == [canonical_name |-> text]
CrateDisplayName_to_string(name) == name.canonical_name

\* CfgOptions: a multimap from predicate key to its set of values; a key with
\* no value is a flag.
CfgOptions_default == [k \in {} |-> {}]

insert_key_value(cfg, key, value) ==
    [k \in DOMAIN cfg \cup {key} |->
        IF k = key
        THEN (IF key \in DOMAIN cfg THEN cfg[key] ELSE {}) \cup {value}
        ELSE cfg[k]]

get_cfg_keys(cfg) == SetToSeq(DOMAIN cfg)

get_cfg_values(cfg, key) == SetToSeq(cfg[key])

\* Env: a map from variable name to value.
Env_default == EmptyMap

Env_set(env, key, value) ==
    [k \in DOMAIN env \cup {key} |-> IF k = key THEN value ELSE env[k]]

Env_iter(env) == LET keys == SetToSeq(DOMAIN env)
                 IN [i \in 1..Len(keys) |-> <<keys[i], env[keys[i]]>>]

\* CrateGraph: the arena of units; the unit CrateId(id) is arena[id + 1].
CrateGraph_default == [arena |-> <<>>]

CrateIds(g) == 0..(Len(g.arena) - 1)

Index(g, id) == g.arena[id + 1]

\* add_crate_root: the new unit takes the next identifier, counted from zero.
add_crate_root(g, file_id, edition, display_name, cfg_options, potential_cfg_options, env) ==
    [arena |-> Append(g.arena,
        [root_file_id |-> file_id,
         edition |-> edition,
         display_name |-> display_name,
         cfg_options |-> cfg_options,
         potential_cfg_options |-> potential_cfg_options,
         env |-> env,
         dependencies |-> <<>>])]

Dependency_new(name, crate_id) == [name |-> name, crate_id |-> crate_id]

Targets(g, id) ==
    IF id \in CrateIds(g)
    THEN {Index(g, id).dependencies[i].crate_id : i \in 1..Len(Index(g, id).dependencies)}
    ELSE {}

RECURSIVE Visit(_, _, _)
Visit(g, visited, todo) ==
    IF todo = {} THEN visited
    ELSE Visit(g, visited \cup todo,
               (UNION {Targets(g, x) : x \in todo}) \ (visited \cup todo))

\* Is there a path of dependencies (of any length, zero included) from..to
find_path(g, from_id, to_id) == to_id \in Visit(g, {}, {from_id})

\* What the graph does with a second dependency of the same name in one unit
\* is left to the graph: it keeps both ("push") or rejects the second
\* ("reject").
DupPolicies == {"push", "reject"}

HasDepNamed(g, id, name) ==
    \E i \in 1..Len(Index(g, id).dependencies) : Index(g, id).dependencies[i].name = name

\* add_dep: Err, graph unchanged, when an end is no unit of the graph, when the
\* edge closes a cycle, when the name collides; Ok with the edge appended to
\* the unit's dependencies otherwise.
add_dep(g, from_id, dep, policy) ==
    IF \/ from_id \notin CrateIds(g)
       \/ dep.crate_id \notin CrateIds(g)
       \/ find_path(g, dep.crate_id, from_id)
       \/ (policy = "reject" /\ HasDepNamed(g, from_id, dep.name))
    THEN [ok |-> FALSE, graph |-> g]
    ELSE [ok |-> TRUE,
          graph |-> [arena |-> [g.arena EXCEPT ![from_id + 1].dependencies =
                                    Append(@, dep)]]]

\* CrateGraph::iter: the identifiers in the arena's own order, here `ord`.
CrateGraph_iter(g, ord) == ord

(***************************************************************************)
(* The codec: crate_graph_json.rs.                                         *)
(***************************************************************************)
\* CfgOptionsJson::from: one (key, values) pair per key.
CfgOptionsJson_from(cfg_options) ==
    LET keys == get_cfg_keys(cfg_options)
    IN [options |-> [i \in 1..Len(keys) |->
                        <<keys[i], get_cfg_values(cfg_options, keys[i])>>]]

\* The inner for_each of to_cfg_options: the values of one key, from the v-th on.
RECURSIVE InsertValues(_, _, _, _)
InsertValues(cfg_options, key, values, v) ==
    IF v > Len(values) THEN cfg_options
    ELSE InsertValues(insert_key_value(cfg_options, key, values[v]), key, values, v + 1)

\* The outer for_each of to_cfg_options: the pairs from the k-th on.
RECURSIVE InsertOptions(_, _, _)
InsertOptions(cfg_options, options, k) ==
    IF k > Len(options) THEN cfg_options
    ELSE InsertOptions(InsertValues(cfg_options, options[k][1], options[k][2], 1),
                       options, k + 1)

\* CfgOptionsJson::to_cfg_options
to_cfg_options(json) == InsertOptions(CfgOptions_default, json.options, 1)

\* EnvJson::from
EnvJson_from(env) == [env |-> Env_iter(env)]

\* The for_each of to_env: the pairs from the k-th on, in list order.
RECURSIVE SetEntries(_, _, _)
SetEntries(env, entries, k) ==
    IF k > Len(entries) THEN env
    ELSE SetEntries(Env_set(env, entries[k][1], entries[k][2]), entries, k + 1)

\* Variant of to_env: the first pair of a key wins (the list taken backwards).
to_env_first_wins(json) ==
    SetEntries(Env_default,
               [k \in 1..Len(json.env) |-> json.env[Len(json.env) + 1 - k]], 1)

\* EnvJson::to_env
to_env(json) == SetEntries(Env_default, json.env, 1)

\* CrateDataJson::from
CrateDataJson_from(crate_data) ==
    [root_file_id |-> crate_data.root_file_id,
     edition |-> Edition_to_string(crate_data.edition),
     display_name |-> IF crate_data.display_name.some
                      THEN Some(CrateDisplayName_to_string(crate_data.display_name.value))
                      ELSE None,
     cfg_options |-> CfgOptionsJson_from(crate_data.cfg_options),
     potential_cfg_options |-> CfgOptionsJson_from(crate_data.potential_cfg_options),
     env |-> EnvJson_from(crate_data.env),
     proc_macro |-> <<>>]

\* The dependencies of one unit as DepJson triples (crate_deps in from).
crate_deps(g, id) ==
    LET dependencies == Index(g, id).dependencies
    IN [i \in 1..Len(dependencies) |->
            [from |-> id,
             name |-> CrateName_to_string(dependencies[i].name),
             to |-> dependencies[i].crate_id]]

\* deps.append(&mut crate_deps) over the units from the k-th of the enumeration on.
RECURSIVE AppendDeps(_, _, _)
AppendDeps(g, ids, k) ==
    IF k > Len(ids) THEN <<>>
    ELSE crate_deps(g, ids[k]) \o AppendDeps(g, ids, k + 1)

\* Insert one entry into a list sorted by slot, after the entries whose slot is
\* not larger: sort_by is stable.
RECURSIVE InsertBySlot(_, _)
InsertBySlot(sorted, entry) ==
    IF sorted = <<>> THEN <<entry>>
    ELSE IF sorted[Len(sorted)][1] <= entry[1] THEN Append(sorted, entry)
    ELSE Append(InsertBySlot(SubSeq(sorted, 1, Len(sorted) - 1), entry),
                sorted[Len(sorted)])

RECURSIVE SortPrefix(_, _)
SortPrefix(crates, k) ==
    IF k = 0 THEN <<>> ELSE InsertBySlot(SortPrefix(crates, k - 1), crates[k])

\* Variant of sort_by_slot: the list is left in enumeration order.
sort_by_slot_missing(crates) == crates

\* crates.sort_by(|(id_a, _), (id_b, _)| id_a.cmp(id_b))
sort_by_slot(crates) == SortPrefix(crates, Len(crates))

\* Variant of from: the edges are collected in slot order, as the crates are.
from_deps_by_slot(g, ord) ==
    LET ids == CrateGraph_iter(g, ord)
        crates == [i \in 1..Len(ids) |-> <<ids[i], CrateDataJson_from(Index(g, ids[i]))>>]
        sorted == sort_by_slot(crates)
    IN [crates |-> sorted,
        deps |-> AppendDeps(g, [i \in 1..Len(sorted) |-> sorted[i][1]], 1)]

\* CrateGraphJson::from, the graph enumerating its units in the order `ord`.
from(g, ord) ==
    LET ids == CrateGraph_iter(g, ord)
        crates == [i \in 1..Len(ids) |-> <<ids[i], CrateDataJson_from(Index(g, ids[i]))>>]
    IN [crates |-> sort_by_slot(crates), deps |-> AppendDeps(g, ids, 1)]

\* Variant of decode_crate: an unknown edition text falls back to the oldest
\* edition instead of Edition::CURRENT.
decode_crate_oldest(d, g, i) ==
    LET data == d.crates[i][2]
        parsed == Edition_parse(data.edition)
        edition == IF parsed.ok THEN parsed.edition ELSE "Edition2015"
        display_name == IF data.display_name.some
                        THEN Some(CrateDisplayName_from_canonical_name(data.display_name.value))
                        ELSE None
    IN add_crate_root(g, data.root_file_id, edition, display_name,
                      to_cfg_options(data.cfg_options),
                      to_cfg_options(data.potential_cfg_options), to_env(data.env))

\* The first closure of to_crate_graph, on the i-th entry of the crates list.
decode_crate(d, g, i) ==
    LET data == d.crates[i][2]
        file_id == data.root_file_id
        parsed == Edition_parse(data.edition)
        edition == IF parsed.ok THEN parsed.edition ELSE Edition_CURRENT
        display_name == IF data.display_name.some
                        THEN Some(CrateDisplayName_from_canonical_name(data.display_name.value))
                        ELSE None
        cfg_options == to_cfg_options(data.cfg_options)
        potential_cfg_options == to_cfg_options(data.potential_cfg_options)
        env == to_env(data.env)
    IN add_crate_root(g, file_id, edition, display_name, cfg_options,
                      potential_cfg_options, env)

\* Variant of decode_dep: the name is not validated.
decode_dep_unvalidated(d, g, j, policy) ==
    LET dep == d.deps[j]
    IN add_dep(g, dep.from, Dependency_new(dep.name, dep.to), policy).graph

\* Variant of decode_dep: the edge is appended to the unit's dependencies
\* directly, without add_dep.
decode_dep_unchecked(d, g, j, policy) ==
    LET dep == d.deps[j]
        name == CrateName_new(dep.name)
    IN IF name.ok /\ dep.from \in CrateIds(g)
       THEN [arena |-> [g.arena EXCEPT ![dep.from + 1].dependencies =
                            Append(@, Dependency_new(name.name, dep.to))]]
       ELSE g

\* The identifier of the first unit whose entry has the slot, or the slot
\* itself when no entry has it.
SlotToId(d, slot) ==
    IF \E i \in 1..Len(d.crates) : d.crates[i][1] = slot
    THEN (CHOOSE i \in 1..Len(d.crates) :
             /\ d.crates[i][1] = slot
             /\ \A k \in 1..(i - 1) : d.crates[k][1] # slot) - 1
    ELSE slot

\* Variant of decode_dep: from and to are resolved through the slots of the
\* crates list.
decode_dep_by_slot(d, g, j, policy) ==
    LET dep == d.deps[j]
        name == CrateName_new(dep.name)
    IN IF name.ok
       THEN add_dep(g, SlotToId(d, dep.from),
                    Dependency_new(name.name, SlotToId(d, dep.to)), policy).graph
       ELSE g

\* Variant of decode_dep: from and to change places.
decode_dep_swapped(d, g, j, policy) ==
    LET dep == d.deps[j]
        name == CrateName_new(dep.name)
    IN IF name.ok
       THEN add_dep(g, dep.to, Dependency_new(name.name, dep.from), policy).graph
       ELSE g

\* The second closure of to_crate_graph, on the j-th entry of the deps list.
decode_dep(d, g, j, policy) ==
    LET dep == d.deps[j]
        from_id == dep.from
        name == CrateName_new(dep.name)
    IN IF name.ok
       THEN add_dep(g, from_id, Dependency_new(name.name, dep.to), policy).graph
       ELSE g

RECURSIVE DecodeCrates(_, _, _)
DecodeCrates(d, g, i) ==
    IF i > Len(d.crates) THEN g ELSE DecodeCrates(d, decode_crate(d, g, i), i + 1)

\* Does add_dep reject the j-th edge of the document in the graph g
EdgeRejected(d, g, j, policy) ==
    /\ CrateName_new(d.deps[j].name).ok
    /\ ~add_dep(g, d.deps[j].from,
                Dependency_new(d.deps[j].name, d.deps[j].to), policy).ok

\* Variant of DecodeDeps: the replay ends at the first edge the graph rejects.
RECURSIVE DecodeDeps_abort(_, _, _, _)
DecodeDeps_abort(d, g, j, policy) ==
    IF j > Len(d.deps) \/ EdgeRejected(d, g, j, policy) THEN g
    ELSE DecodeDeps_abort(d, decode_dep(d, g, j, policy), j + 1, policy)

RECURSIVE DecodeDeps(_, _, _, _)
DecodeDeps(d, g, j, policy) ==
    IF j > Len(d.deps) THEN g
    ELSE DecodeDeps(d, decode_dep(d, g, j, policy), j + 1, policy)

\* CrateGraphJson::to_crate_graph
to_crate_graph(d, policy) ==
    DecodeDeps(d, DecodeCrates(d, CrateGraph_default, 1), 1, policy)

EmptyDoc == [crates |-> <<>>, deps |-> <<>>]

(***************************************************************************)
(* Building a graph, encoding it, decoding the document.                   *)
(***************************************************************************)
\* The names a caller gives to dependencies of a graph it builds.
GraphNames == {<<"b">>, <<"c">>}

Init ==
    /\ graph = CrateGraph_default
    /\ order = <<>>
    /\ doc = EmptyDoc
    /\ out = CrateGraph_default
    /\ pc = "build"
    /\ dup_policy \in DupPolicies

\* graph.add_crate_root(FileId(n), Edition2018, None, default, default, default, ..)
\* as the caller of the test does.
AddCrateRoot ==
    /\ pc = "build"
    /\ Len(graph.arena) < MaxCrates
    /\ graph' = add_crate_root(graph, Len(graph.arena) + 1, "Edition2018", None,
                               CfgOptions_default, CfgOptions_default, Env_default)
    /\ UNCHANGED <<order, doc, out, pc, dup_policy>>

NumEdges(g) == LET n == Len(g.arena)
               IN IF n = 0 THEN 0
                  ELSE Len(AppendDeps(g, [i \in 1..n |-> i - 1], 1))

\* graph.add_dep(from, Dependency::new(CrateName::new(name).unwrap(), to))
AddDep(from_id, text, to_id) ==
    /\ pc = "build"
    /\ NumEdges(graph) < MaxEdges
    /\ CrateName_new(text).ok
    /\ graph' = add_dep(graph, from_id, Dependency_new(CrateName_new(text).name, to_id),
                        dup_policy).graph
    /\ UNCHANGED <<order, doc, out, pc, dup_policy>>

\* CrateGraphJson::from(&graph)
Encode(ord) ==
    /\ pc = "build"
    /\ order' = ord
    /\ doc' = from(graph, ord)
    /\ out' = CrateGraph_default
    /\ pc' = "decode"
    /\ UNCHANGED <<graph, dup_policy>>

\* A document of any provenance is handed to the decoder.
LoadDocument(d) ==
    /\ pc = "build"
    /\ doc' = d
    /\ out' = CrateGraph_default
    /\ pc' = "decode"
    /\ UNCHANGED <<graph, order, dup_policy>>

\* self.to_crate_graph()
Decode ==
    /\ pc = "decode"
    /\ out' = to_crate_graph(doc, dup_policy)
    /\ pc' = "done"
    /\ UNCHANGED <<graph, order, doc, dup_policy>>

Next ==
    \/ AddCrateRoot
    \/ /\ pc = "build"
       /\ \E from_id \in CrateIds(graph), to_id \in CrateIds(graph), text \in GraphNames :
             AddDep(from_id, text, to_id)
    \/ /\ pc = "build"
       /\ \E ord \in Perms(Len(graph.arena)) : Encode(ord)
    \/ Decode

Spec == Init /\ [][Next]_vars

(***************************************************************************)
(* Decoding documents of any provenance.                                   *)
(***************************************************************************)
\* The unit data CrateDataJson::from gives for a unit as the test builds it.
TestUnitJson(root) ==
    [root_file_id |-> root,
     edition |-> "2018",
     display_name |-> None,
     cfg_options |-> [options |-> <<>>],
     potential_cfg_options |-> [options |-> <<>>],
     env |-> [env |-> <<>>],
     proc_macro |-> <<>>]

\* Dependency names of a document: empty, a name token, a name with a dash.
DocNames == {<<>>, <<"b">>, <<"c", "-", "d">>}

\* The edges of a document: identifiers of its units and one that is none.
DepJsons == [from : 0..DocUnits, name : DocNames, to : 0..DocUnits]

\* Documents of DocUnits units, slots 0..n-1, and any edge list.
EdgeDocs ==
    {[crates |-> [i \in 1..DocUnits |-> <<i - 1, TestUnitJson(i)>>], deps |-> ds] :
        ds \in SeqsUpTo(DepJsons, MaxDeps)}

NextDoc ==
    \/ /\ pc = "build"
       /\ \E d \in EdgeDocs : LoadDocument(d)
    \/ Decode

SpecDoc == Init /\ [][NextDoc]_vars

(***************************************************************************)
(* Documents whose slots are not 0..n-1 in order.                          *)
(***************************************************************************)
\* edges of a document whose slots vary
SlotDeps == 1

\* Up to DocUnits entries, any slot each (gaps, duplicates, any order); the
\* root of the entry at position i is 10 + i, so that a unit tells its entry.
SlotDocs ==
    {[crates |-> [i \in 1..Len(slots) |-> <<slots[i], TestUnitJson(10 + i)>>], deps |-> ds] :
        slots \in SeqsUpTo(0..DocUnits, DocUnits),
        ds \in SeqsUpTo([from : 0..DocUnits, name : {<<"b">>, <<"c", "-", "d">>},
                         to : 0..DocUnits], SlotDeps)}

NextSlot ==
    \/ /\ pc = "build"
       /\ \E d \in SlotDocs : LoadDocument(d)
    \/ Decode

SpecSlot == Init /\ [][NextSlot]_vars

(***************************************************************************)
(* The metadata of one unit.                                               *)
(***************************************************************************)
CfgKeys == {"test", "feature"}
CfgValues == {"std", "alloc"}
EnvKeys == {"A", "B"}
EnvValues == {"1", "2"}

\* CfgOptions values: every multimap over the keys and values.
CfgSets(keys, values) == UNION {[K -> SUBSET values] : K \in SUBSET keys}

\* Env values: every map over the keys and values.
EnvMaps == UNION {[K -> EnvValues] : K \in SUBSET EnvKeys}

\* Graphs of one unit, its metadata any combination.
MetaGraphs ==
    {add_crate_root(CrateGraph_default, 1, edition, display_name, cfg, pcfg, env) :
        edition \in Editions,
        display_name \in {None, Some(CrateDisplayName_from_canonical_name("core"))},
        cfg \in CfgSets(CfgKeys, CfgValues),
        pcfg \in CfgSets({"test"}, {"std"}),
        env \in EnvMaps}

\* Edition texts of a document: the canonical forms, the empty text, another.
EditionTexts == {"2015", "2018", "2021", "", "2024"}

\* cfg_options lists of a document: empty, a key without values, a key with
\* two values, a key that occurs twice.
CfgLists ==
    {<<>>,
     << <<"test", <<>>>> >>,
     << <<"feature", <<"std", "alloc">>>> >>,
     << <<"feature", <<"std">>>>, <<"feature", <<"alloc">>>> >>}

\* Documents of one unit, its data any combination.
MetaDocs ==
    {[crates |-> << <<0, [root_file_id |-> 1,
                         edition |-> edition,
                         display_name |-> display_name,
                         cfg_options |-> [options |-> cfg],
                         potential_cfg_options |-> [options |-> <<>>],
                         env |-> [env |-> env],
                         proc_macro |-> <<>>]>> >>,
      deps |-> <<>>] :
        edition \in EditionTexts,
        display_name \in {None, Some("core")},
        cfg \in CfgLists,
        env \in SeqsUpTo(EnvKeys \X EnvValues, MaxEnv)}

InitMeta ==
    /\ graph \in MetaGraphs \cup {CrateGraph_default}
    /\ order = <<>>
    /\ doc = EmptyDoc
    /\ out = CrateGraph_default
    /\ pc = "build"
    /\ dup_policy \in DupPolicies

NextMeta ==
    \/ /\ pc = "build"
       /\ Len(graph.arena) > 0
       /\ Encode(<<0>>)
    \/ /\ pc = "build"
       /\ Len(graph.arena) = 0
       /\ \E d \in MetaDocs : LoadDocument(d)
    \/ Decode

SpecMeta == InitMeta /\ [][NextMeta]_vars

(***************************************************************************)
(* Properties.                                                             *)
(***************************************************************************)
DepsOf(g, id) == Index(g, id).dependencies

\* The edges of a graph as (from, name, to) triples.
EdgesOf(g) ==
    UNION {{[from |-> id, name |-> DepsOf(g, id)[i].name, to |-> DepsOf(g, id)[i].crate_id] :
                i \in 1..Len(DepsOf(g, id))} : id \in CrateIds(g)}

HasEdge(g, a, name, b) == [from |-> a, name |-> name, to |-> b] \in EdgesOf(g)

\* C1: decoding the encoding of a graph gives as many units as the graph has,
\* the unit at each position built from the same root, and for every edge
\* (a, name, b) of the graph an edge of that name from unit a to unit b.
RoundTripStructure ==
    pc = "done" =>
        /\ Len(out.arena) = Len(graph.arena)
        /\ \A a \in CrateIds(graph) :
              /\ Index(out, a).root_file_id = Index(graph, a).root_file_id
              /\ \A i \in 1..Len(DepsOf(graph, a)) :
                    HasEdge(out, a, DepsOf(graph, a)[i].name, DepsOf(graph, a)[i].crate_id)

\* A graph of three units and two edges, enumerated out of order, has been
\* encoded and decoded.
RoundTripStructureWitness ==
    /\ pc = "done"
    /\ Len(graph.arena) = 3
    /\ Cardinality(EdgesOf(graph)) = 2
    /\ order[1] # 0
    /\ Cardinality(EdgesOf(out)) = 2

\* C3: whatever the enumeration order, the crates list of the encoding is
\* strictly ascending by slot and has one entry per unit of the graph, whose
\* slot is the unit's identifier and whose data is the unit's.
SlotCanonical ==
    pc # "build" =>
        /\ Len(doc.crates) = Len(graph.arena)
        /\ \A i \in 1..(Len(doc.crates) - 1) : doc.crates[i][1] < doc.crates[i + 1][1]
        /\ \A id \in CrateIds(graph) :
              \E i \in 1..Len(doc.crates) :
                  /\ doc.crates[i][1] = id
                  /\ doc.crates[i][2].root_file_id = Index(graph, id).root_file_id

\* Three units enumerated in descending order have been encoded.
SlotCanonicalWitness ==
    /\ pc = "decode"
    /\ order = <<2, 1, 0>>
    /\ Len(doc.crates) = 3

\* The number of edges the units before position u of the enumeration have.
RECURSIVE Offset(_, _, _)
Offset(g, ord, u) ==
    IF u = 1 THEN 0 ELSE Offset(g, ord, u - 1) + Len(DepsOf(g, ord[u - 1]))

Prefix(d, j) == [d EXCEPT !.deps = SubSeq(d.deps, 1, j)]

\* The document without its j-th edge.
Without(d, j) == [d EXCEPT !.deps = SubSeq(d.deps, 1, j - 1) \o SubSeq(d.deps, j + 1, Len(d.deps))]

ValidName(e) == IsNameToken(e.name)

\* The document without the edges whose name is no name token.
ValidOnly(d) == [d EXCEPT !.deps = SelectSeq(d.deps, ValidName)]

\* The pairs (a, b) with a path of one or more edges from a to b.
RECURSIVE Close(_, _)
Close(R, k) ==
    IF k = 0 THEN R
    ELSE Close(R \cup {<<x[1][1], x[2][2]>> : x \in {y \in R \X R : y[1][2] = y[2][1]}}, k - 1)

Acyclic(g) ==
    \A p \in Close({<<e.from, e.to>> : e \in EdgesOf(g)}, Len(g.arena)) : p[1] # p[2]

\* The edges are acceptable one and all: between units, no cycle among
\* them, no name twice in one unit.
CleanEdges(deps, n) ==
    /\ \A j \in 1..Len(deps) : deps[j].from \in 0..(n - 1) /\ deps[j].to \in 0..(n - 1)
    /\ \A p \in Close({<<deps[j].from, deps[j].to>> : j \in 1..Len(deps)}, n) : p[1] # p[2]
    /\ \A i, j \in 1..Len(deps) : (i # j /\ deps[i].from = deps[j].from) => deps[i].name # deps[j].name

\* C5: an edge whose name is no name token (the empty name, a name with a
\* dash) is not in the decoded graph, leaves the graph under construction as
\* it was, and decoding gives what it gives without such edges; when the
\* other edges are acceptable, all of them are in the decoded graph.
InvalidNameSkipped ==
    pc = "done" =>
        /\ Len(out.arena) = Len(doc.crates)
        /\ \A j \in 1..Len(doc.deps) :
              ~ValidName(doc.deps[j]) =>
                  /\ doc.deps[j] \notin EdgesOf(out)
                  /\ to_crate_graph(Prefix(doc, j), dup_policy) =
                         to_crate_graph(Prefix(doc, j - 1), dup_policy)
        /\ out = to_crate_graph(ValidOnly(doc), dup_policy)
        /\ CleanEdges(ValidOnly(doc).deps, Len(doc.crates)) =>
              \A j \in 1..Len(doc.deps) :
                  ValidName(doc.deps[j]) => doc.deps[j] \in EdgesOf(out)

\* An edge with the empty name, which would have closed a cycle with the
\* next edge had it been added, is skipped and the next edge is added.
InvalidNameSkippedWitness ==
    /\ pc = "done"
    /\ doc.deps = <<[from |-> 0, name |-> <<>>, to |-> 1],
                    [from |-> 1, name |-> <<"b">>, to |-> 0]>>
    /\ EdgesOf(out) = {[from |-> 1, name |-> <<"b">>, to |-> 0]}

\* An edge from a to b earlier in the list than an edge from b to a.
Reversed(d, i, j) ==
    /\ i < j
    /\ d.deps[i].from = d.deps[j].to
    /\ d.deps[i].to = d.deps[j].from
    /\ d.deps[i].from # d.deps[i].to

\* The graph under construction when the j-th edge is replayed.
Before(d, j, policy) == to_crate_graph(Prefix(d, j - 1), policy)

\* C6 as stated: decoding returns an acyclic graph, and of an edge A->B
\* followed by an edge B->A only the first can be in the result.
CycleFirstInListWins ==
    pc = "done" =>
        /\ Len(out.arena) = Len(doc.crates)
        /\ Acyclic(out)
        /\ \A i, j \in 1..Len(doc.deps) :
              Reversed(doc, i, j) => doc.deps[j] \notin EdgesOf(out)

\* C6: decoding returns an acyclic graph; an edge that would close a cycle
\* is skipped and the replay goes on as if the edge were not in the list; of
\* an edge A->B followed by an edge B->A at most one is in the result: the
\* first when the graph accepted it.
CycleTolerance ==
    pc = "done" =>
        /\ Len(out.arena) = Len(doc.crates)
        /\ Acyclic(out)
        /\ \A j \in 1..Len(doc.deps) :
              (/\ ValidName(doc.deps[j])
               /\ <<doc.deps[j].to, doc.deps[j].from>> \in
                     {<<x, x>> : x \in CrateIds(out)} \cup
                     Close({<<e.from, e.to>> : e \in EdgesOf(Before(doc, j, dup_policy))},
                           Len(out.arena)))
              => out = to_crate_graph(Without(doc, j), dup_policy)
        /\ \A i, j \in 1..Len(doc.deps) :
              Reversed(doc, i, j) =>
                  /\ ~(doc.deps[i] \in EdgesOf(out) /\ doc.deps[j] \in EdgesOf(out))
                  /\ doc.deps[i] \in EdgesOf(to_crate_graph(Prefix(doc, i), dup_policy))
                        => doc.deps[j] \notin EdgesOf(out)

\* A self-dependency is skipped and the next edge is added; and A->B is
\* added and the following B->A skipped.
CycleToleranceWitness ==
    /\ pc = "done"
    /\ \/ /\ doc.deps = <<[from |-> 0, name |-> <<"b">>, to |-> 0],
                          [from |-> 0, name |-> <<"b">>, to |-> 1]>>
          /\ EdgesOf(out) = {[from |-> 0, name |-> <<"b">>, to |-> 1]}
       \/ /\ doc.deps = <<[from |-> 0, name |-> <<"b">>, to |-> 1],
                          [from |-> 1, name |-> <<"b">>, to |-> 0]>>
          /\ EdgesOf(out) = {[from |-> 0, name |-> <<"b">>, to |-> 1]}

\* C7: decoding a document whose slots have gaps or duplicates and whose
\* edges name identifiers that are no units returns a graph of one unit per
\* entry, every edge of which is an edge of the document between two units
\* of the graph.
NoDanglingEdges ==
    pc = "done" =>
        /\ Len(out.arena) = Len(doc.crates)
        /\ \A e \in EdgesOf(out) :
              /\ e.from \in CrateIds(out)
              /\ e.to \in CrateIds(out)
              /\ \E j \in 1..Len(doc.deps) : doc.deps[j] = e

\* A document with a duplicate slot and an edge to an identifier that is no
\* unit has been decoded, and the edge is not in the graph.
NoDanglingEdgesWitness ==
    /\ pc = "done"
    /\ Len(doc.crates) = 2
    /\ doc.crates[1][1] = doc.crates[2][1]
    /\ Len(doc.deps) = 1
    /\ ValidName(doc.deps[1])
    /\ doc.deps[1].from = 0
    /\ doc.deps[1].to = 2
    /\ EdgesOf(out) = {}

\* The document with the slot of each entry replaced by its position.
Renumbered(d) == [d EXCEPT !.crates = [i \in 1..Len(d.crates) |-> <<i - 1, d.crates[i][2]>>]]

\* C9: decoding creates one unit per entry of the crates list, the N-th
\* entry becoming the unit N-1 whatever its slot; the slots have no effect
\* on the result, and the from and to of an edge are the identifiers of the
\* units it joins.
PositionalIdentity ==
    pc = "done" =>
        /\ Len(out.arena) = Len(doc.crates)
        /\ \A n \in 1..Len(doc.crates) :
              Index(out, n - 1).root_file_id = doc.crates[n][2].root_file_id
        /\ out = to_crate_graph(Renumbered(doc), dup_policy)
        /\ \A e \in EdgesOf(out) : \E j \in 1..Len(doc.deps) : doc.deps[j] = e
        /\ (/\ Len(doc.deps) >= 1
            /\ ValidName(doc.deps[1])
            /\ doc.deps[1].from \in CrateIds(out)
            /\ doc.deps[1].to \in CrateIds(out)
            /\ doc.deps[1].from # doc.deps[1].to)
           => doc.deps[1] \in EdgesOf(out)

\* Two entries of slot 2 have become the units 0 and 1, and the edge from 0
\* to 1 joins them.
PositionalIdentityWitness ==
    /\ pc = "done"
    /\ Len(doc.crates) = 2
    /\ doc.crates[1][1] = 2
    /\ doc.crates[2][1] = 2
    /\ [from |-> 0, name |-> <<"b">>, to |-> 1] \in EdgesOf(out)

\* C2 as stated: each unit of the decoded encoding of a graph has the root,
\* edition, display name, cfg, potential cfg and env of the unit of the
\* graph at its position, a cfg key without values included.
MetadataRoundTrip ==
    (pc = "done" /\ Len(graph.arena) > 0) =>
        /\ Len(out.arena) = Len(graph.arena)
        /\ \A id \in CrateIds(graph) :
              /\ Index(out, id).root_file_id = Index(graph, id).root_file_id
              /\ Index(out, id).edition = Index(graph, id).edition
              /\ Index(out, id).display_name = Index(graph, id).display_name
              /\ Index(out, id).cfg_options = Index(graph, id).cfg_options
              /\ Index(out, id).potential_cfg_options = Index(graph, id).potential_cfg_options
              /\ Index(out, id).env = Index(graph, id).env

\* C8: an edition text that is the canonical form of an edition decodes to
\* that edition, any other text to Edition::CURRENT, and the unit is created
\* either way.
EditionFallback ==
    pc = "done" =>
        /\ Len(out.arena) = Len(doc.crates)
        /\ \A n \in 1..Len(doc.crates) :
              LET text == doc.crates[n][2].edition
              IN IF \E e \in Editions : Edition_to_string(e) = text
                 THEN Edition_to_string(Index(out, n - 1).edition) = text
                 ELSE Index(out, n - 1).edition = Edition_CURRENT

\* A unit whose edition text is empty has been decoded to Edition::CURRENT.
EditionFallbackWitness ==
    /\ pc = "done"
    /\ Len(graph.arena) = 0
    /\ Len(doc.crates) = 1
    /\ doc.crates[1][2].edition = ""
    /\ Index(out, 0).edition = Edition_CURRENT

\* C10: the decoded environment holds the keys of the env list and no
\* other, each with the value of its last pair in the list.
EnvLastWriteWins ==
    pc = "done" =>
        \A n \in 1..Len(doc.crates) :
            LET list == doc.crates[n][2].env.env
                env == Index(out, n - 1).env
            IN /\ DOMAIN env = {list[k][1] : k \in 1..Len(list)}
               /\ \A k \in 1..Len(list) :
                     (\A m \in (k + 1)..Len(list) : list[m][1] # list[k][1])
                         => env[list[k][1]] = list[k][2]

\* A list that sets A to 1, then B, then A to 2 has been decoded, and A is 2.
EnvLastWriteWinsWitness ==
    /\ pc = "done"
    /\ Len(doc.crates) = 1
    /\ doc.crates[1][2].env.env = << <<"A", "1">>, <<"B", "1">>, <<"A", "2">> >>
    /\ Index(out, 0).env["A"] = "2"

====
